---- MODULE Spec2Model ----
(***************************************************************************)
(* Model of the message core of neural-core-assistant:                     *)
(*   - parseMessage (src/src/utils/messageParser.ts), the fenced-code      *)
(*     segment parser, as the loop it runs over the regular expression     *)
(*     /```(\w+)?\n([\s\S]*?)```/g;                                        *)
(*   - TypewriterMessage (src/unnamed/part_000), the incremental revealer, *)
(*     as the React state it keeps, its effect, its timeout callback and   *)
(*     its click handler.                                                  *)
(*   - generateAIResponse (src/src/lib/nlp.ts), the call of a provider, as *)
(*     the steps between its awaits and the value its promise settles to.  *)
(* A string is a sequence of one-character strings; offsets are 0-based as *)
(* in the source, so offset i is element i+1 of the sequence.              *)
(***************************************************************************)
EXTENDS Integers, Sequences, FiniteSets, TLC

VARIABLES
    \* ---- parseMessage ----
    message,          \* the argument of parseMessage
    parts,            \* const parts: MessagePart[]
    lastIndex,        \* let lastIndex
    regexLastIndex,   \* codeBlockRegex.lastIndex (the /g flag's scan position)
    spans,            \* for each pushed part, the offsets [from, to) the code took it from
    pc,               \* "loop" while the while-loop runs, "done" after return, "off" when not called
    calls,            \* number of calls of parseMessage so far (capped at MaxCalls)
    \* ---- TypewriterMessage ----
    content,          \* prop content (the full text)
    displayedContent, \* useState('')
    currentIndex,     \* useState(0)
    isPaused,         \* useState(false)
    isComplete,       \* useState(false)
    timers,           \* pending setTimeout callbacks: [id, idx], idx the currentIndex the closure captured
    effectTimer,      \* the timeout the last effect run's cleanup will clear (0: none)
    nextTimerId,      \* the id the next setTimeout returns
    effectDue,        \* a commit changed the effect's dependencies and the effect has not run yet
    onCompleteCalls,  \* number of calls of onComplete so far
    clicks,           \* number of clicks handled so far (capped at MaxClicks)
    \* ---- generateAIResponse ----
    model,            \* the argument model: [provider]
    response,         \* the body of the response fetch resolved to
    settled,          \* the promise the call returned: pending, fulfilled with a value, rejected
    aiPc,             \* "fetch" / "json": the await the call is suspended at; "done"; "off" when not called
    \* ---- several TypewriterMessage instances (one per assistant message) ----
    instances,        \* message id -> the hook state of that message's TypewriterMessage
    \* ---- Dashboard ----
    currentConversation,  \* useState<string | null>(null)
    messages,             \* useState<Message[]>([])
    input,                \* useState('')
    loading,              \* useState(false)
    isThinking,           \* useState(false)
    imageAnalysisResults, \* useState<ImageAnalysisResult[] | null>(null)
    showImageUpload,      \* useState(false): ImageAnalysis is mounted
    previewImage,         \* ImageAnalysis: previewImage is set
    imgLoading,           \* ImageAnalysis: loading (analyzeImage is running)
    db,                   \* the messages table: conversation id -> rows in created_at order
    sends,                \* the calls of sendMessage that are suspended at an await
    loads,                \* the calls of loadMessages that are suspended at their await
    submits               \* number of submit events so far (capped at MaxSubmits)

parseVars == <<message, parts, lastIndex, regexLastIndex, spans, pc, calls>>
revealVars == <<content, displayedContent, currentIndex, isPaused, isComplete,
                timers, effectTimer, nextTimerId, effectDue, onCompleteCalls, clicks>>
aiVars == <<model, response, settled, aiPc>>
pairVars == <<instances>>
dashVars == <<currentConversation, messages, input, loading, isThinking, imageAnalysisResults,
              showImageUpload, previewImage, imgLoading, db, sends, loads, submits>>
vars == <<parseVars, revealVars, aiVars, pairVars, dashVars>>

----------------------------------------------------------------------------
\* Bounds of the model.

\* Inputs of parseMessage are concatenations of at most MaxParseChunks chunks.
MaxParseChunks == 5
\* Full texts of the revealer are concatenations of at most MaxRevealChunks chunks.
MaxRevealChunks == 4
\* Clicks counted per revealer.
MaxClicks == 2
\* Arguments of the call of parseMessage that is followed to its end.
MaxCallChunks == 3
\* Calls of parseMessage in a row.
MaxCalls == 3
\* how many times the message form is submitted
MaxSubmits == 2

----------------------------------------------------------------------------
\* Characters and strings.

\* the backtick character (a backtick cannot be written in a TLA+ string)
Backtick == "bt"
Newline == "\n"
Space == " "
Letter == "a"

FenceMark == <<Backtick, Backtick, Backtick>>
Plaintext == <<"p", "l", "a", "i", "n", "t", "e", "x", "t">>

\* \w of the regular expression
\* the \w characters the inputs use: Letter, and the letters and the digit of the
\* text of ScenarioText and of 'plaintext'
WordChars == {Letter, "B", "H", "e", "h", "i", "l", "n", "o", "p", "r", "t", "x", "y", "1"}

IsWordChar(c) == c \in WordChars
\* the characters String.prototype.trim removes
IsWhitespace(c) == c \in {Space, Newline}

Min(S) == CHOOSE x \in S : \A y \in S : x <= y
Max(S) == CHOOSE x \in S : \A y \in S : x >= y

\* s.slice(from, to), 0 <= from
Slice(s, from, to) ==
    LET hi == IF to < Len(s) THEN to ELSE Len(s)
    IN  IF from >= hi THEN <<>> ELSE SubSeq(s, from + 1, hi)

\* s.slice(from)
SliceFrom(s, from) == Slice(s, from, Len(s))

\* s.startsWith(p)
StartsWith(s, p) == Slice(s, 0, Len(p)) = p

\* s.indexOf(p, from), -1 when there is none
IndexOf(s, p, from) ==
    LET hits == {i \in from..(Len(s) - Len(p)) : Slice(s, i, i + Len(p)) = p}
    IN  IF hits = {} THEN -1 ELSE Min(hits)

\* s.trim()
Trim(s) ==
    LET keep == {i \in 1..Len(s) : ~IsWhitespace(s[i])}
    IN  IF keep = {} THEN <<>> ELSE SubSeq(s, Min(keep), Max(keep))

\* The input strings: every concatenation of at most n chunks.  The chunks are the
\* four characters, the fence mark, an opener line without a tag, and a word of
\* the length of one step of the revealer.
Chunks ==
    { <<Backtick>>, <<Newline>>, <<Space>>, <<Letter>>,
      FenceMark, FenceMark \o <<Newline>>, <<Letter, Letter, Letter>> }

RECURSIVE Flatten(_)
Flatten(ss) == IF ss = <<>> THEN <<>> ELSE Head(ss) \o Flatten(Tail(ss))

Inputs(n) == { Flatten(cs) : cs \in UNION { [1..k -> Chunks] : k \in 0..n } }

----------------------------------------------------------------------------
\* codeBlockRegex = /```(\w+)?\n([\s\S]*?)```/g

NoMatch == [index |-> -1]

\* offset just past the longest run of word characters starting at offset i
WordRunEnd(msg, i) ==
    Min({j \in i..Len(msg) : j = Len(msg) \/ ~IsWordChar(msg[j + 1])})

\* (mutant) a pattern that also takes an opener without a closing mark, up to the
\* end of the string
MatchAtUnterminated(msg, i) ==
    IF ~StartsWith(SliceFrom(msg, i), FenceMark) THEN NoMatch
    ELSE LET t == WordRunEnd(msg, i + 3)
         IN  IF ~(t < Len(msg) /\ msg[t + 1] = Newline) THEN NoMatch
             ELSE LET c == IndexOf(msg, FenceMark, t + 1)
                      e == IF c = -1 THEN Len(msg) ELSE c
                  IN  [index  |-> i,
                       length |-> (IF c = -1 THEN Len(msg) ELSE c + 3) - i,
                       tag    |-> Slice(msg, i + 3, t),
                       body   |-> Slice(msg, t + 1, e)]

\* (mutant) a greedy body: the block ends at the last closing mark
MatchAtGreedy(msg, i) ==
    IF ~StartsWith(SliceFrom(msg, i), FenceMark) THEN NoMatch
    ELSE LET t == WordRunEnd(msg, i + 3)
         IN  IF ~(t < Len(msg) /\ msg[t + 1] = Newline) THEN NoMatch
             ELSE LET cs == {c \in (t + 1)..(Len(msg) - 3) : Slice(msg, c, c + 3) = FenceMark}
                  IN  IF cs = {} THEN NoMatch
                      ELSE [index  |-> i,
                            length |-> Max(cs) + 3 - i,
                            tag    |-> Slice(msg, i + 3, t),
                            body   |-> Slice(msg, t + 1, Max(cs))]

\* (mutant) an opener that lets any characters stand between the tag and the newline
MatchAtLooseOpener(msg, i) ==
    IF ~StartsWith(SliceFrom(msg, i), FenceMark) THEN NoMatch
    ELSE LET t == IndexOf(msg, <<Newline>>, WordRunEnd(msg, i + 3))
         IN  IF t = -1 THEN NoMatch
             ELSE LET c == IndexOf(msg, FenceMark, t + 1)
                  IN  IF c = -1 THEN NoMatch
                      ELSE [index  |-> i,
                            length |-> c + 3 - i,
                            tag    |-> Slice(msg, i + 3, WordRunEnd(msg, i + 3)),
                            body   |-> Slice(msg, t + 1, c)]

\* The match of the pattern anchored at offset i, or NoMatch.  (\w+)? is greedy and
\* what follows it is a newline, which is no word character, so only the longest
\* run can be the tag; [\s\S]*? is lazy, so the body ends at the first ``` after
\* the newline.
MatchAt(msg, i) ==
    IF ~StartsWith(SliceFrom(msg, i), FenceMark) THEN NoMatch
    ELSE LET t == WordRunEnd(msg, i + 3)
         IN  IF ~(t < Len(msg) /\ msg[t + 1] = Newline) THEN NoMatch
             ELSE LET c == IndexOf(msg, FenceMark, t + 1)
                  IN  IF c = -1 THEN NoMatch
                      ELSE [index  |-> i,
                            length |-> c + 3 - i,
                            tag    |-> Slice(msg, i + 3, t),
                            body   |-> Slice(msg, t + 1, c)]

\* (mutant) a pattern without the g flag: exec leaves lastIndex at 0
RegexLastIndexNotGlobal(m) == 0

\* codeBlockRegex.lastIndex after exec returned the match m (the g flag): the end
\* of the match
RegexLastIndex(m) == m.index + m.length

\* codeBlockRegex.exec(message) with codeBlockRegex.lastIndex = from
RegexExec(msg, from) ==
    LET found == {MatchAt(msg, i) : i \in from..Len(msg)} \ {NoMatch}
    IN  IF found = {} THEN NoMatch
        ELSE CHOOSE m \in found : \A o \in found : m.index <= o.index

----------------------------------------------------------------------------
\* generateAIResponse: the values it handles

\* JSON values, and undefined.  An object is its fields (a function from keys to
\* values), an array its items; a string is a sequence of characters.
Undefined == [t |-> "undefined"]
Null == [t |-> "null"]
Str(s) == [t |-> "string", s |-> s]
Obj(f) == [t |-> "object", fields |-> f]
Arr(a) == [t |-> "array", items |-> a]

\* v[k] (v.k) for a value v that is neither null nor undefined; the index 0 is the
\* key "0"
Get(v, k) ==
    IF v.t = "object"
    THEN IF k \in DOMAIN v.fields THEN v.fields[k] ELSE Undefined
    ELSE IF v.t = "array"
    THEN IF k = "0" /\ Len(v.items) >= 1 THEN v.items[1] ELSE Undefined
    ELSE IF v.t = "string"
    THEN IF k = "0" /\ Len(v.s) >= 1 THEN Str(<<v.s[1]>>) ELSE Undefined
    ELSE Undefined

\* the exception a property access on null or undefined throws
TypeError == [t |-> "TypeError"]

\* v.k1.k2...: the chain of property accesses along path; it throws when a
\* property is read from null or undefined, and yields undefined when the last
\* property is missing
RECURSIVE Access(_, _)
Access(v, path) ==
    IF path = <<>> THEN v
    ELSE IF v.t \in {"undefined", "null"} THEN TypeError
    ELSE Access(Get(v, Head(path)), Tail(path))

\* data.choices[0].message.content
OpenRouterPath == <<"choices", "0", "message", "content">>
\* data.candidates[0].content.parts[0].text
GeminiPath == <<"candidates", "0", "content", "parts", "0", "text">>

Providers == {"openrouter", "gemini"}

\* model.provider === 'openrouter' ? ... : ...
PathOf(m) == IF m.provider = "openrouter" THEN OpenRouterPath ELSE GeminiPath

\* the string the catch block returns (its first words)
Apology == Str(<<"I", " ", "a", "p", "o", "l", "o", "g", "i", "z", "e">>)

\* texts a provider answers with
Texts == {<<"H", "i">>, <<"B", "y", "e">>, <<>>}

\* The values a response body may decode to along a path: the path may stop at
\* any depth (the holder there is null, or is empty), and at its end stands a text
\* or null.
RECURSIVE Shapes(_)
Shapes(path) ==
    IF path = <<>> THEN {Str(s) : s \in Texts} \cup {Null}
    ELSE LET k == Head(path)
         IN  IF k = "0"
             THEN {Null, Arr(<<>>)} \cup {Arr(<<v>>) : v \in Shapes(Tail(path))}
             ELSE {Null, Obj(<<>>)} \cup {Obj([x \in {k} |-> v]) : v \in Shapes(Tail(path))}

\* a body that is not JSON (response.json() rejects)
NotJson == [t |-> "not json"]

\* the body of an error answer of a provider: { error: { message } }
ErrorBody == Obj([x \in {"error"} |-> Obj([y \in {"message"} |-> Str(<<"n", "o">>)])])

\* the bodies fetch may resolve with
Bodies == Shapes(OpenRouterPath) \cup Shapes(GeminiPath) \cup {ErrorBody, NotJson}

NoResponse == [t |-> "none"]
Pending == [state |-> "pending"]
Fulfilled(v) == [state |-> "fulfilled", value |-> v]
Rejected(e) == [state |-> "rejected", reason |-> e]

AiIdle ==
    /\ model = [provider |-> "openrouter"]
    /\ response = NoResponse
    /\ settled = Pending
    /\ aiPc = "off"

\* no TypewriterMessage is mounted
PairIdle == instances = <<>>

\* currentConversation === null
NoConversation == "none"

\* imageAnalysisResults: null, or an array of results
NoResults == [set |-> FALSE, items |-> <<>>]
Results(rs) == [set |-> TRUE, items |-> rs]

DashIdle ==
    /\ currentConversation = NoConversation
    /\ messages = <<>>
    /\ input = <<>>
    /\ loading = FALSE
    /\ isThinking = FALSE
    /\ imageAnalysisResults = NoResults
    /\ showImageUpload = FALSE
    /\ previewImage = FALSE
    /\ imgLoading = FALSE
    /\ db = <<>>
    /\ sends = {}
    /\ loads = {}
    /\ submits = 0

----------------------------------------------------------------------------
\* parseMessage

\* (mutant) a text part with its content trimmed
TextPartTrimmed(s) == [type |-> "text", content |-> Trim(s)]

TextPart(s) == [type |-> "text", content |-> s]

\* (mutant) the language without its default
LanguageNoDefault(tag) == tag

\* match[1] || 'plaintext'
Language(tag) == IF tag = <<>> THEN Plaintext ELSE tag

CodePart(m) == [type |-> "code", content |-> Trim(m.body), language |-> Language(m.tag)]

\* (mutant) the scan position is left at the closing mark
NextLastIndexAtCloser(m) == m.index + m.length - 3

\* the offset the scan resumes at after a match
NextLastIndex(m) == m.index + m.length

\* (mutant) the code block is pushed before the text that precedes it
PushMatchCodeFirst(ps, msg, last, m) ==
    LET withCode == Append(ps, CodePart(m))
    IN  IF m.index > last
        THEN Append(withCode, TextPart(Slice(msg, last, m.index)))
        ELSE withCode

\* one pass of the loop body: the parts pushed for match m
PushMatch(ps, msg, last, m) ==
    LET withText == IF m.index > last
                    THEN Append(ps, TextPart(Slice(msg, last, m.index)))
                    ELSE ps
    IN  Append(withText, CodePart(m))

\* the offsets of the parts pushed by PushMatch
SpanMatch(sp, last, m) ==
    LET withText == IF m.index > last THEN Append(sp, <<last, m.index>>) ELSE sp
    IN  Append(withText, <<m.index, m.index + m.length>>)

\* (mutant) the remaining text is pushed without the test that it is not empty
PushRestAlways(ps, msg, last) == Append(ps, TextPart(SliceFrom(msg, last)))

\* "Add remaining text"
PushRest(ps, msg, last) ==
    IF last < Len(msg) THEN Append(ps, TextPart(SliceFrom(msg, last))) ELSE ps

SpanRest(sp, msg, last) ==
    IF last < Len(msg) THEN Append(sp, <<last, Len(msg)>>) ELSE sp

\* The whole function, for callers (renderContent).
RECURSIVE ParseFrom(_, _, _)
ParseFrom(msg, last, ps) ==
    LET m == RegexExec(msg, last)
    IN  IF m = NoMatch THEN PushRest(ps, msg, last)
        ELSE ParseFrom(msg, NextLastIndex(m), PushMatch(ps, msg, last, m))

ParseMessage(msg) == ParseFrom(msg, 0, <<>>)

\* The spans [from, to) of the fenced blocks parseMessage matches in msg.
RECURSIVE FenceSpansFrom(_, _)
FenceSpansFrom(msg, last) ==
    LET m == RegexExec(msg, last)
    IN  IF m = NoMatch THEN {}
        ELSE {<<m.index, NextLastIndex(m)>>} \cup FenceSpansFrom(msg, NextLastIndex(m))

FenceSpans(msg) == FenceSpansFrom(msg, 0)

\* renderContent: nothing for an empty displayedContent, else the parts of
\* parseMessage(displayedContent)
RenderContent == IF displayedContent = <<>> THEN <<>> ELSE ParseMessage(displayedContent)

\* ---- the call of parseMessage as a state machine ----

ParseIdle ==
    /\ message = <<>>
    /\ parts = <<>>
    /\ lastIndex = 0
    /\ regexLastIndex = 0
    /\ spans = <<>>
    /\ pc = "off"
    /\ calls = 0

RevealIdle ==
    /\ content = <<>>
    /\ displayedContent = <<>>
    /\ currentIndex = 0
    /\ isPaused = FALSE
    /\ isComplete = FALSE
    /\ timers = {}
    /\ effectTimer = 0
    /\ nextTimerId = 1
    /\ effectDue = FALSE
    /\ onCompleteCalls = 0
    /\ clicks = 0

ParseInit ==
    /\ message \in Inputs(MaxParseChunks)
    /\ parts = <<>>
    /\ lastIndex = 0
    /\ regexLastIndex = 0
    /\ spans = <<>>
    /\ pc = "loop"
    /\ calls = 1
    /\ RevealIdle
    /\ AiIdle
    /\ PairIdle
    /\ DashIdle

\* while ((match = codeBlockRegex.exec(message)) !== null) { ... }: one iteration
ParseMatch ==
    /\ pc = "loop"
    /\ \E m \in {RegexExec(message, regexLastIndex)} :
           /\ m # NoMatch
           /\ parts' = PushMatch(parts, message, lastIndex, m)
           /\ spans' = SpanMatch(spans, lastIndex, m)
           /\ lastIndex' = NextLastIndex(m)
           /\ regexLastIndex' = RegexLastIndex(m)
    /\ UNCHANGED <<message, pc, calls>>
    /\ UNCHANGED revealVars
    /\ UNCHANGED <<aiVars, pairVars, dashVars>>

\* exec returns null (and resets lastIndex); the remaining text is added; return parts
ParseFinish ==
    /\ pc = "loop"
    /\ RegexExec(message, regexLastIndex) = NoMatch
    /\ parts' = PushRest(parts, message, lastIndex)
    /\ spans' = SpanRest(spans, message, lastIndex)
    /\ regexLastIndex' = 0
    /\ pc' = "done"
    /\ UNCHANGED <<message, lastIndex, calls>>
    /\ UNCHANGED revealVars
    /\ UNCHANGED <<aiVars, pairVars, dashVars>>

ParseNext == ParseMatch \/ ParseFinish

SpecParse == ParseInit /\ [][ParseNext]_vars

\* before the call
ParseOff == ParseIdle /\ RevealIdle /\ AiIdle /\ PairIdle /\ DashIdle

\* the arguments of the calls that are followed to their end
CallInputs == Inputs(MaxCallChunks)

\* parseMessage(message) is called with an argument
ParseCall ==
    /\ pc = "off"
    /\ message' \in CallInputs
    /\ pc' = "loop"
    /\ calls' = 1
    /\ UNCHANGED <<parts, lastIndex, regexLastIndex, spans>>
    /\ UNCHANGED revealVars
    /\ UNCHANGED <<aiVars, pairVars, dashVars>>

ParseRun == ParseCall \/ ParseMatch \/ ParseFinish

\* s is a prefix of t
IsPrefix(s, t) == Len(s) <= Len(t) /\ s = SubSeq(t, 1, Len(s))

\* (mutant) lastIndex declared outside the function: the next call starts with
\* the value the previous call left
ParseAgainSharedLastIndex ==
    /\ pc = "done"
    /\ calls < MaxCalls
    /\ calls' = calls + 1
    /\ message' \in {m \in CallInputs : IsPrefix(m, message) \/ IsPrefix(message, m) \/ Len(m) <= 1}
    /\ parts' = <<>>
    /\ regexLastIndex' = 0
    /\ spans' = <<>>
    /\ pc' = "loop"
    /\ UNCHANGED lastIndex
    /\ UNCHANGED revealVars
    /\ UNCHANGED <<aiVars, pairVars, dashVars>>

\* parseMessage is called again after a call returned, with a prefix or an
\* extension of the previous argument or another short string: parts, the regular
\* expression object (lastIndex 0) and lastIndex are created anew by lines 13-16
ParseAgain ==
    /\ pc = "done"
    /\ calls < MaxCalls
    /\ calls' = calls + 1
    /\ message' \in {m \in CallInputs : IsPrefix(m, message) \/ IsPrefix(message, m) \/ Len(m) <= 1}
    /\ parts' = <<>>
    /\ lastIndex' = 0
    /\ regexLastIndex' = 0
    /\ spans' = <<>>
    /\ pc' = "loop"
    /\ UNCHANGED revealVars
    /\ UNCHANGED <<aiVars, pairVars, dashVars>>

CallsNext == ParseCall \/ ParseAgain \/ ParseMatch \/ ParseFinish

\* a sequence of calls of parseMessage
SpecCalls == ParseOff /\ [][CallsNext]_vars

\* the call, from before it is made, run to its end: the function is plain
\* sequential code, so a step that can be taken is taken
FairSpecParse == ParseOff /\ [][ParseRun]_vars /\ WF_vars(ParseRun)

----------------------------------------------------------------------------
\* TypewriterMessage

\* Math.min(3, ...): the characters added per step
DefaultIncrement == 3

\* After mounting: the useState initial values, and the effect of the first render
\* still to run.
\* (mutant) a step that never takes a block at once
NeverFenceJump(idx) == FALSE

\* a full text with one tagged fence between two lines of text:
\* Hi, newline, fence python, newline, print(1), newline, fence, newline, Bye
ScenarioText ==
    <<"H", "i", Newline>>
    \o FenceMark \o <<"p", "y", "t", "h", "o", "n", Newline>>
    \o <<"p", "r", "i", "n", "t", "(", "1", ")", Newline>>
    \o FenceMark
    \o <<Newline, "B", "y", "e">>

Init ==
    /\ content \in Inputs(MaxRevealChunks) \cup {ScenarioText}
    /\ displayedContent = <<>>
    /\ currentIndex = 0
    /\ isPaused = FALSE
    /\ isComplete = FALSE
    /\ timers = {}
    /\ effectTimer = 0
    /\ nextTimerId = 1
    /\ effectDue = TRUE
    /\ onCompleteCalls = 0
    /\ clicks = 0
    /\ ParseIdle
    /\ AiIdle
    /\ PairIdle
    /\ DashIdle

\* (mutant) an effect that returns no cleanup
CleanupMissing == timers

\* return () => clearTimeout(timeout): the cleanup of the previous effect run
CleanedTimers == {t \in timers : t.id # effectTimer}

\* the effect's test: another step is to be scheduled
StepWanted == currentIndex < Len(content)

\* useEffect(() => {...}, [currentIndex, content, isPaused, onComplete]).  React runs
\* the previous run's cleanup, then the effect, after a commit that changed a
\* dependency (and after the first commit).
RunEffect ==
    /\ effectDue
    /\ effectDue' = FALSE
    /\ IF StepWanted
       THEN /\ timers' = CleanedTimers \cup {[id |-> nextTimerId, idx |-> currentIndex]}
            /\ effectTimer' = nextTimerId
            /\ nextTimerId' = nextTimerId + 1
            /\ UNCHANGED <<isComplete, onCompleteCalls>>
       ELSE /\ timers' = CleanedTimers
            /\ effectTimer' = 0
            /\ isComplete' = TRUE
            /\ onCompleteCalls' = onCompleteCalls + 1
            /\ UNCHANGED nextTimerId
    /\ UNCHANGED <<content, displayedContent, currentIndex, isPaused, clicks>>
    /\ UNCHANGED parseVars
    /\ UNCHANGED <<aiVars, pairVars, dashVars>>

\* The callback's two tests with currentIndex = idx: the remainder starts with the
\* fence mark, and indexOf(fence mark, 3) in the remainder is not -1.
IsFenceJump(idx) ==
    LET remainingContent == SliceFrom(content, idx)
    IN  /\ StartsWith(remainingContent, FenceMark)
        /\ IndexOf(remainingContent, FenceMark, 3) # -1

\* (mutant) the block is taken without its closing mark
CodeBlockWithoutCloser(idx) ==
    LET remainingContent == SliceFrom(content, idx)
        endIndex == IndexOf(remainingContent, FenceMark, 3)
    IN  Slice(remainingContent, 0, endIndex)

\* const codeBlock = remainingContent.slice(0, endIndex + 3)
CodeBlock(idx) ==
    LET remainingContent == SliceFrom(content, idx)
        endIndex == IndexOf(remainingContent, FenceMark, 3)
    IN  Slice(remainingContent, 0, endIndex + 3)

\* (mutant) a step that adds nothing
CharsToAddZero(idx) == 0

\* (mutant) the increment is not limited to the characters that are left
CharsToAddUnclamped(idx) == DefaultIncrement

\* const charsToAdd = Math.min(3, content.length - currentIndex)
CharsToAdd(idx) ==
    IF DefaultIncrement < Len(content) - idx THEN DefaultIncrement ELSE Len(content) - idx

\* (mutant) one character per step
NextCharsSingle(idx) == Slice(content, idx, idx + 1)

\* const nextChars = content.slice(currentIndex, currentIndex + charsToAdd)
NextChars(idx) == Slice(content, idx, idx + CharsToAdd(idx))

\* what the callback appends to displayedContent
StepChars(idx) == IF IsFenceJump(idx) THEN CodeBlock(idx) ELSE NextChars(idx)

\* (mutant) the cursor moves by the small increment even when a block was added
StepAdvanceSmall(idx) == CharsToAdd(idx)

\* what the callback adds to currentIndex: codeBlock.length, or charsToAdd
StepAdvance(idx) == IF IsFenceJump(idx) THEN Len(CodeBlock(idx)) ELSE CharsToAdd(idx)

\* The setTimeout callback of timer t fires: setDisplayedContent(prev => prev + ...),
\* setCurrentIndex(currentIndex + ...) with the currentIndex of its closure, and the
\* commit of both.  React runs a pending effect before it renders a later update,
\* so no callback runs between a commit and its effect.
TimerFire(t) ==
    /\ ~effectDue
    /\ t \in timers
    /\ timers' = timers \ {t}
    /\ displayedContent' = displayedContent \o StepChars(t.idx)
    /\ currentIndex' = t.idx + StepAdvance(t.idx)
    /\ effectDue' = (currentIndex' # currentIndex)
    /\ UNCHANGED <<content, isPaused, isComplete, effectTimer, nextTimerId,
                   onCompleteCalls, clicks>>
    /\ UNCHANGED parseVars
    /\ UNCHANGED <<aiVars, pairVars, dashVars>>

\* (mutant) handleClick without its test
ClickAlways == TRUE

\* handleClick's test
ClickTakesEffect == currentIndex < Len(content)

\* (mutant) handleClick that does not move the cursor
HandleClickKeepsCursor ==
    /\ ~effectDue
    /\ clicks < MaxClicks
    /\ clicks' = clicks + 1
    /\ IF ClickTakesEffect
       THEN /\ isPaused' = TRUE
            /\ displayedContent' = content
            /\ UNCHANGED currentIndex
       ELSE UNCHANGED <<isPaused, displayedContent, currentIndex>>
    /\ effectDue' = (currentIndex' # currentIndex \/ isPaused' # isPaused)
    /\ UNCHANGED <<content, isComplete, timers, effectTimer, nextTimerId, onCompleteCalls>>
    /\ UNCHANGED parseVars
    /\ UNCHANGED <<aiVars, pairVars, dashVars>>

\* handleClick, and the commit of its three updates.  The effect is due again when
\* the commit changed one of its dependencies (currentIndex, isPaused).
HandleClick ==
    /\ ~effectDue
    /\ clicks < MaxClicks
    /\ clicks' = clicks + 1
    /\ IF ClickTakesEffect
       THEN /\ isPaused' = TRUE
            /\ displayedContent' = content
            /\ currentIndex' = Len(content)
       ELSE UNCHANGED <<isPaused, displayedContent, currentIndex>>
    /\ effectDue' = (currentIndex' # currentIndex \/ isPaused' # isPaused)
    /\ UNCHANGED <<content, isComplete, timers, effectTimer, nextTimerId, onCompleteCalls>>
    /\ UNCHANGED parseVars
    /\ UNCHANGED <<aiVars, pairVars, dashVars>>

Next ==
    \/ RunEffect
    \/ \E t \in timers : TimerFire(t)
    \/ HandleClick

Spec == Init /\ [][Next]_vars

\* React runs every effect it has scheduled, and the host fires every timeout
\* that is not cleared.
FairSpec ==
    /\ Spec
    /\ WF_vars(RunEffect)
    /\ WF_vars(\E t \in timers : TimerFire(t))

----------------------------------------------------------------------------
\* generateAIResponse

\* the call: the function runs up to its first await, the fetch of the provider
AiInit ==
    /\ model \in [provider : Providers]
    /\ response = NoResponse
    /\ settled = Pending
    /\ aiPc = "fetch"
    /\ ParseIdle
    /\ RevealIdle
    /\ PairIdle
    /\ DashIdle

\* try { ... } catch (error) { console.error(...); return apology }: what the call
\* returns when the try block ends with outcome o (a value, or a thrown exception)
TryCatch(o) == IF o = TypeError THEN Apology ELSE o

\* fetch rejects (no network, CORS): the catch block returns the apology
FetchRejects ==
    /\ aiPc = "fetch"
    /\ settled' = Fulfilled(Apology)
    /\ aiPc' = "done"
    /\ UNCHANGED <<model, response>>
    /\ UNCHANGED <<parseVars, revealVars, pairVars, dashVars>>

\* fetch resolves with a response, whatever its status; the call awaits response.json()
FetchResolves ==
    /\ aiPc = "fetch"
    /\ response' \in Bodies
    /\ aiPc' = "json"
    /\ UNCHANGED <<model, settled>>
    /\ UNCHANGED <<parseVars, revealVars, pairVars, dashVars>>

\* response.json() rejects: the catch block returns the apology
JsonRejects ==
    /\ aiPc = "json"
    /\ response = NotJson
    /\ settled' = Fulfilled(Apology)
    /\ aiPc' = "done"
    /\ UNCHANGED <<model, response>>
    /\ UNCHANGED <<parseVars, revealVars, pairVars, dashVars>>

\* response.json() resolves with data; return data.choices[0].message.content
\* (data.candidates[0].content.parts[0].text), inside the try block
JsonResolves ==
    /\ aiPc = "json"
    /\ response # NotJson
    /\ settled' = Fulfilled(TryCatch(Access(response, PathOf(model))))
    /\ aiPc' = "done"
    /\ UNCHANGED <<model, response>>
    /\ UNCHANGED <<parseVars, revealVars, pairVars, dashVars>>

AiNext == FetchRejects \/ FetchResolves \/ JsonRejects \/ JsonResolves

SpecAI == AiInit /\ [][AiNext]_vars

----------------------------------------------------------------------------
\* Several TypewriterMessage instances: Dashboard renders one per assistant
\* message (key = message.id), and React keeps the hooks of each instance apart.

\* the ids of the assistant messages that are rendered
MessageIds == {1, 2}

\* the contents of these messages: one step, two steps, a block and a step
PairTexts ==
    { <<Letter>>,
      <<Letter, Letter, Letter, Letter>>,
      FenceMark \o <<Newline, Letter>> \o FenceMark \o <<Letter>> }

\* the hooks of an instance after its first render
Mounted(text) ==
    [content |-> text, displayedContent |-> <<>>, currentIndex |-> 0,
     isPaused |-> FALSE, isComplete |-> FALSE,
     timers |-> {}, effectTimer |-> 0, nextTimerId |-> 1, effectDue |-> TRUE]

PairInit ==
    /\ instances \in [MessageIds -> {Mounted(text) : text \in PairTexts}]
    /\ ParseIdle
    /\ RevealIdle
    /\ AiIdle
    /\ DashIdle

\* the effect of instance r: cleanup of the previous run, then a new timer or
\* setIsComplete(true)
InstEffect(r) ==
    LET cleaned == {t \in r.timers : t.id # r.effectTimer}
    IN  IF r.currentIndex < Len(r.content)
        THEN [r EXCEPT !.effectDue = FALSE,
                       !.timers = cleaned \cup {[id |-> r.nextTimerId, idx |-> r.currentIndex]},
                       !.effectTimer = r.nextTimerId,
                       !.nextTimerId = r.nextTimerId + 1]
        ELSE [r EXCEPT !.effectDue = FALSE,
                       !.timers = cleaned,
                       !.effectTimer = 0,
                       !.isComplete = TRUE]

\* what the timeout callback of instance r adds, with currentIndex = idx
InstStepChars(r, idx) ==
    LET remainingContent == SliceFrom(r.content, idx)
        endIndex == IndexOf(remainingContent, FenceMark, 3)
        charsToAdd == IF DefaultIncrement < Len(r.content) - idx
                      THEN DefaultIncrement ELSE Len(r.content) - idx
    IN  IF StartsWith(remainingContent, FenceMark) /\ endIndex # -1
        THEN Slice(remainingContent, 0, endIndex + 3)
        ELSE Slice(r.content, idx, idx + charsToAdd)

\* the timeout callback t of instance r and the commit of its updates
InstStep(r, t) ==
    LET added == InstStepChars(r, t.idx)
    IN  [r EXCEPT !.timers = r.timers \ {t},
                  !.displayedContent = r.displayedContent \o added,
                  !.currentIndex = t.idx + Len(added),
                  !.effectDue = (t.idx + Len(added) # r.currentIndex)]

\* handleClick of instance r
InstClick(r) ==
    IF r.currentIndex < Len(r.content)
    THEN [r EXCEPT !.isPaused = TRUE,
                   !.displayedContent = r.content,
                   !.currentIndex = Len(r.content),
                   !.effectDue = TRUE]
    ELSE r

PairFrame ==
    /\ UNCHANGED <<parseVars, revealVars, aiVars, dashVars>>

PairRunEffect(i) ==
    /\ instances[i].effectDue
    /\ instances' = [instances EXCEPT ![i] = InstEffect(instances[i])]
    /\ PairFrame

PairTimerFire(i) ==
    /\ ~instances[i].effectDue
    /\ \E t \in instances[i].timers :
           instances' = [instances EXCEPT ![i] = InstStep(instances[i], t)]
    /\ PairFrame

\* (mutant) the paused flag and the reveal are shared: a click reveals every message
PairHandleClickShared(i) ==
    /\ ~instances[i].effectDue
    /\ instances' = [j \in MessageIds |-> InstClick(instances[j])]
    /\ PairFrame

PairHandleClick(i) ==
    /\ ~instances[i].effectDue
    /\ instances' = [instances EXCEPT ![i] = InstClick(instances[i])]
    /\ PairFrame

PairNext == \E i \in MessageIds : PairRunEffect(i) \/ PairTimerFire(i) \/ PairHandleClick(i)

SpecPair == PairInit /\ [][PairNext]_vars

----------------------------------------------------------------------------
\* Dashboard: the conversation that is open, its list of messages, the message
\* form with the image attachment, and sendMessage / loadMessages, whose awaits
\* interleave with the user's events.  A handler runs up to its next await in
\* one step; each await's resumption is a step of its own.

Conversations == {"A", "B"}

\* a row of the messages table
Row(c, r, text) == [conversation_id |-> c, role |-> r, content |-> text]

\* .eq('conversation_id', conversationId) of the table
RowsOf(c) == SelectSeq(db, LAMBDA m : m.conversation_id = c)

\* the values typed in the input field
InputTexts == {<<>>, <<Space>>, <<Letter>>}

\* the one result analyzeImage pushes
TextResult == [type |-> "text", content |-> <<Letter>>]

\* result.type.toUpperCase()
ToUpperCase(t) ==
    CASE t = "text" -> "TEXT"
      [] t = "scene" -> "SCENE"
      [] t = "qr" -> "QR"

RECURSIVE JoinResults(_)
\* results.map(result => TYPE + ":\n" + content).join('\n\n')
JoinResults(rs) ==
    IF rs = <<>> THEN <<>>
    ELSE <<ToUpperCase(Head(rs).type), ":", Newline>> \o Head(rs).content
         \o (IF Len(rs) > 1 THEN <<Newline, Newline>> ELSE <<>>)
         \o JoinResults(Tail(rs))

\* messageContent of sendMessage
MessageContent(text, results) ==
    Trim(text) \o
    (IF results.set
     THEN <<Newline, Newline, "Image Question is:", Newline>> \o JoinResults(results.items)
     ELSE <<>>)

\* what generateAIResponse resolves to
AiResponses == {<<Letter>>}

DashInit ==
    /\ currentConversation = NoConversation
    /\ messages = <<>>
    /\ input = <<>>
    /\ loading = FALSE
    /\ isThinking = FALSE
    /\ imageAnalysisResults = NoResults
    /\ showImageUpload = FALSE
    /\ previewImage = FALSE
    /\ imgLoading = FALSE
    /\ db = <<Row("B", "user", <<Letter>>)>>
    /\ sends = {}
    /\ loads = {}
    /\ submits = 0
    /\ ParseIdle
    /\ RevealIdle
    /\ AiIdle
    /\ PairIdle

DashFrame ==
    /\ UNCHANGED <<parseVars, revealVars, aiVars, pairVars>>

\* onClick of a conversation in the sidebar, and the effect on currentConversation
SelectConversation(c) ==
    /\ currentConversation' = c
    /\ loads' = IF c # currentConversation THEN loads \cup {c} ELSE loads
    /\ UNCHANGED <<messages, input, loading, isThinking, imageAnalysisResults,
                   showImageUpload, previewImage, imgLoading, db, sends, submits>>
    /\ DashFrame

\* loadMessages(c) after its await
LoadMessagesReturns(c) ==
    /\ c \in loads
    /\ loads' = loads \ {c}
    /\ \/ messages' = RowsOf(c)
       \/ messages' = messages
    /\ UNCHANGED <<currentConversation, input, loading, isThinking, imageAnalysisResults,
                   showImageUpload, previewImage, imgLoading, db, sends, submits>>
    /\ DashFrame

\* onChange of the input field (disabled while loading)
TypeInput(text) ==
    /\ ~loading
    /\ text # input
    /\ input' = text
    /\ UNCHANGED <<currentConversation, messages, loading, isThinking, imageAnalysisResults,
                   showImageUpload, previewImage, imgLoading, db, sends, loads, submits>>
    /\ DashFrame

\* the paperclip button; closing unmounts ImageAnalysis.  It is not clicked
\* while an analysis runs.
ToggleImageUpload ==
    /\ ~imgLoading
    /\ showImageUpload' = ~showImageUpload
    /\ previewImage' = FALSE
    /\ UNCHANGED <<currentConversation, messages, input, loading, isThinking,
                   imageAnalysisResults, imgLoading, db, sends, loads, submits>>
    /\ DashFrame

\* onDrop -> analyzeImage up to its first await
DropImage ==
    /\ showImageUpload
    /\ ~imgLoading
    /\ imgLoading' = TRUE
    /\ UNCHANGED <<currentConversation, messages, input, loading, isThinking,
                   imageAnalysisResults, showImageUpload, previewImage, db, sends, loads, submits>>
    /\ DashFrame

\* analyzeImage after compressImage: the preview is shown
PreviewSet ==
    /\ imgLoading
    /\ ~previewImage
    /\ previewImage' = TRUE
    /\ UNCHANGED <<currentConversation, messages, input, loading, isThinking,
                   imageAnalysisResults, showImageUpload, imgLoading, db, sends, loads, submits>>
    /\ DashFrame

\* analyzeImage: an await throws (compression, image load or OCR); catch, finally
AnalysisFails ==
    /\ imgLoading
    /\ imgLoading' = FALSE
    /\ UNCHANGED <<currentConversation, messages, input, loading, isThinking,
                   imageAnalysisResults, showImageUpload, previewImage, db, sends, loads, submits>>
    /\ DashFrame

\* handleImageAnalysisComplete
HandleImageAnalysisComplete(results) ==
    /\ imageAnalysisResults' = Results(results)
    /\ showImageUpload' = FALSE

\* analyzeImage: the OCR result is delivered; the panel closes
AnalysisSucceeds ==
    /\ imgLoading
    /\ previewImage
    /\ imgLoading' = FALSE
    /\ HandleImageAnalysisComplete(<<TextResult>>)
    /\ previewImage' = FALSE
    /\ UNCHANGED <<currentConversation, messages, input, loading, isThinking,
                   db, sends, loads, submits>>
    /\ DashFrame

\* clearImage: the trash button over the preview (under the overlay while loading)
ClearImage ==
    /\ showImageUpload
    /\ previewImage
    /\ ~imgLoading
    /\ HandleImageAnalysisComplete(<<>>)
    /\ previewImage' = FALSE
    /\ UNCHANGED <<currentConversation, messages, input, loading, isThinking,
                   imgLoading, db, sends, loads, submits>>
    /\ DashFrame

\* the guard of sendMessage: an array, even an empty one, is truthy
SendGuard ==
    /\ ~(Trim(input) = <<>> /\ ~imageAnalysisResults.set)
    /\ currentConversation # NoConversation
    /\ ~loading

\* the call of sendMessage that is awaiting, with the values its closure holds
Send(n) ==
    [id |-> n, conversation |-> currentConversation, messages |-> messages,
     input |-> input, results |-> imageAnalysisResults,
     messageContent |-> MessageContent(input, imageAnalysisResults),
     stage |-> "insertUser", aiResponse |-> <<>>]

\* onSubmit of the form: sendMessage up to its first await
Submit ==
    /\ submits < MaxSubmits
    /\ submits' = submits + 1
    /\ IF SendGuard
       THEN /\ loading' = TRUE
            /\ sends' = sends \cup {Send(submits + 1)}
       ELSE UNCHANGED <<loading, sends>>
    /\ UNCHANGED <<currentConversation, messages, input, isThinking, imageAnalysisResults,
                   showImageUpload, previewImage, imgLoading, db, loads>>
    /\ DashFrame

\* sendMessage after the insert of the user message
InsertUserReturns(s) ==
    /\ s.stage = "insertUser"
    /\ \/ LET messageData == Row(s.conversation, "user", s.messageContent)
          IN  /\ db' = Append(db, messageData)
              /\ messages' = Append(s.messages, messageData)
              /\ input' = <<>>
              /\ imageAnalysisResults' = NoResults
              /\ IF Len(s.messages) = 0
                 THEN /\ sends' = (sends \ {s}) \cup {[s EXCEPT !.stage = "title"]}
                      /\ UNCHANGED isThinking
                 ELSE /\ sends' = (sends \ {s}) \cup {[s EXCEPT !.stage = "ai"]}
                      /\ isThinking' = TRUE
              /\ UNCHANGED loading
       \/ /\ sends' = sends \ {s}
          /\ loading' = FALSE
          /\ UNCHANGED <<db, messages, input, imageAnalysisResults, isThinking>>
    /\ UNCHANGED <<currentConversation, showImageUpload, previewImage, imgLoading,
                   loads, submits>>
    /\ DashFrame

\* sendMessage after the update of the conversation's title
TitleUpdateReturns(s) ==
    /\ s.stage = "title"
    /\ sends' = (sends \ {s}) \cup {[s EXCEPT !.stage = "ai"]}
    /\ isThinking' = TRUE
    /\ UNCHANGED <<currentConversation, messages, input, loading, imageAnalysisResults,
                   showImageUpload, previewImage, imgLoading, db, loads, submits>>
    /\ DashFrame

\* sendMessage after generateAIResponse, which resolves and never rejects
AiReturns(s) ==
    /\ s.stage = "ai"
    /\ \E aiResponse \in AiResponses :
           sends' = (sends \ {s}) \cup {[s EXCEPT !.stage = "insertAi", !.aiResponse = aiResponse]}
    /\ UNCHANGED <<currentConversation, messages, input, loading, isThinking,
                   imageAnalysisResults, showImageUpload, previewImage, imgLoading,
                   db, loads, submits>>
    /\ DashFrame

\* (mutant) loading and isThinking are reset only when the insert succeeded
InsertAssistantReturnsStuck(s) ==
    /\ s.stage = "insertAi"
    /\ \/ LET aiMessageData == Row(s.conversation, "assistant", s.aiResponse)
          IN  /\ db' = Append(db, aiMessageData)
              /\ messages' = Append(messages, aiMessageData)
              /\ isThinking' = FALSE
              /\ loading' = FALSE
       \/ UNCHANGED <<db, messages, isThinking, loading>>
    /\ sends' = sends \ {s}
    /\ UNCHANGED <<currentConversation, input, imageAnalysisResults, showImageUpload,
                   previewImage, imgLoading, loads, submits>>
    /\ DashFrame

\* sendMessage after the insert of the assistant message, to its end
InsertAssistantReturns(s) ==
    /\ s.stage = "insertAi"
    /\ \/ LET aiMessageData == Row(s.conversation, "assistant", s.aiResponse)
          IN  /\ db' = Append(db, aiMessageData)
              /\ messages' = Append(messages, aiMessageData)
       \/ UNCHANGED <<db, messages>>
    /\ isThinking' = FALSE
    /\ loading' = FALSE
    /\ sends' = sends \ {s}
    /\ UNCHANGED <<currentConversation, input, imageAnalysisResults, showImageUpload,
                   previewImage, imgLoading, loads, submits>>
    /\ DashFrame

\* the resumptions of sendMessage
SendResumes ==
    \E s \in sends :
        \/ InsertUserReturns(s)
        \/ TitleUpdateReturns(s)
        \/ AiReturns(s)
        \/ InsertAssistantReturns(s)

\* the conversations: opening one, loading it, typing and sending
ConvNext ==
    \/ \E c \in Conversations : SelectConversation(c)
    \/ \E c \in Conversations : LoadMessagesReturns(c)
    \/ \E text \in InputTexts : TypeInput(text)
    \/ Submit
    \/ SendResumes

SpecConv == DashInit /\ [][ConvNext]_vars

\* every request of sendMessage is answered
FairSpecConv == SpecConv /\ WF_vars(SendResumes)

\* conversation A has been opened and its (empty) list loaded
FormInit ==
    /\ currentConversation = "A"
    /\ messages = <<>>
    /\ input = <<>>
    /\ loading = FALSE
    /\ isThinking = FALSE
    /\ imageAnalysisResults = NoResults
    /\ showImageUpload = FALSE
    /\ previewImage = FALSE
    /\ imgLoading = FALSE
    /\ db = <<Row("B", "user", <<Letter>>)>>
    /\ sends = {}
    /\ loads = {}
    /\ submits = 0
    /\ ParseIdle
    /\ RevealIdle
    /\ AiIdle
    /\ PairIdle

\* the message form of the open conversation: typing, attaching an image, sending
FormNext ==
    \/ \E text \in InputTexts : TypeInput(text)
    \/ ToggleImageUpload
    \/ DropImage
    \/ PreviewSet
    \/ AnalysisFails
    \/ AnalysisSucceeds
    \/ ClearImage
    \/ Submit
    \/ SendResumes

SpecForm == FormInit /\ [][FormNext]_vars

----------------------------------------------------------------------------
\* Properties of TypewriterMessage (checked under Spec or FairSpec).

\* C1: whenever the visible prefix contains the opening three backticks of a
\* fenced block of the full text, it contains the whole block up to and
\* including the closing three backticks.
C1_PrefixNeverInsideFence ==
    \A sp \in FenceSpans(content) :
        Len(displayedContent) >= sp[1] + 3 => Len(displayedContent) >= sp[2]

\* C2: a click handled while the cursor is below the length of the full text sets
\* the cursor to that length and the visible prefix to the full text in that one
\* step; the next step is the effect run that fires onComplete, and it is taken.
C2_ForceCompleteReveals ==
    /\ [][(HandleClick /\ currentIndex < Len(content))
            => (currentIndex' = Len(content) /\ displayedContent' = content)]_vars
    /\ [][(isPaused /\ effectDue)
            => (onCompleteCalls = 0 /\ onCompleteCalls' = 1 /\ displayedContent' = content)]_vars
    /\ ((isPaused /\ effectDue) ~> (onCompleteCalls = 1 /\ ~effectDue))

\* a forced completion has taken place and its notification has fired
C2_Witness ==
    /\ clicks >= 1
    /\ isPaused
    /\ content # <<>>
    /\ displayedContent = content
    /\ onCompleteCalls = 1

\* C3: onComplete is called exactly once: never twice, not before the cursor is at
\* the end, it has been called once the effect of the commit that reached the end
\* has run, no step is scheduled or pending after it, and it is called eventually.
C3_CompletesExactlyOnce ==
    /\ [](/\ onCompleteCalls <= 1
          /\ (onCompleteCalls = 1 => (currentIndex = Len(content) /\ timers = {} /\ ~effectDue))
          /\ ((currentIndex = Len(content) /\ ~effectDue) => onCompleteCalls = 1))
    /\ [][onCompleteCalls' # onCompleteCalls
            => (onCompleteCalls' = 1 /\ currentIndex = Len(content) /\ timers' = {})]_vars
    /\ <>[](onCompleteCalls = 1)

\* the timed steps alone reached the end, the notification fired, clicks followed
C3_Witness ==
    /\ ~isPaused
    /\ clicks = MaxClicks
    /\ content # <<>>
    /\ currentIndex = Len(content)
    /\ onCompleteCalls = 1

\* C4: a click handled when the cursor is at the end (a second click, or a click
\* after the timed steps completed) changes nothing of the reveal state and causes
\* no further effect run, so onComplete is not called again.
C4_ForceCompleteIdempotent ==
    /\ [][(HandleClick /\ currentIndex = Len(content))
            => UNCHANGED <<currentIndex, displayedContent, isPaused, isComplete,
                           onCompleteCalls, effectDue, timers>>]_vars
    /\ [](clicks >= 1 => onCompleteCalls <= 1)

\* two clicks were handled, the first of which completed the reveal
C4_Witness ==
    /\ clicks = 2
    /\ isPaused
    /\ isComplete
    /\ content # <<>>
    /\ displayedContent = content
    /\ onCompleteCalls = 1

\* C5: the cursor stays within 0..length(fullText) and no step decreases it.
C5_CursorBoundedMonotone ==
    /\ [](0 <= currentIndex /\ currentIndex <= Len(content))
    /\ [][currentIndex' >= currentIndex]_vars

\* a short last step (fewer than 3 characters were left) reached the end
C5_Witness ==
    /\ ~isPaused
    /\ currentIndex = Len(content)
    /\ Len(content) % DefaultIncrement # 0
    /\ FenceSpans(content) = {}

----------------------------------------------------------------------------
\* Properties of parseMessage (checked under SpecParse).

AllWord(s) == \A i \in 1..Len(s) : IsWordChar(s[i])
AllWhitespace(s) == \A i \in 1..Len(s) : IsWhitespace(s[i])

\* c is body without its leading and trailing whitespace
IsTrimOf(c, body) ==
    \E i \in 0..Len(body) : \E j \in i..Len(body) :
        /\ c = Slice(body, i, j)
        /\ AllWhitespace(Slice(body, 0, i))
        /\ AllWhitespace(SliceFrom(body, j))
        /\ (c = <<>> \/ (~IsWhitespace(c[1]) /\ ~IsWhitespace(c[Len(c)])))

\* s is three backticks, a tag of word characters, a newline, a body, three backticks
IsFencedBlock(s, tag, body) ==
    /\ AllWord(tag)
    /\ s = FenceMark \o tag \o <<Newline>> \o body \o FenceMark

\* the slice of the input that part k was taken from
PartSlice(k) == Slice(message, spans[k][1], spans[k][2])

\* the tag and the body of a slice that is a fenced block: what lies between the
\* opening backticks and the first newline, and between that newline and the
\* closing backticks
TagOf(s) == Slice(s, 3, IndexOf(s, <<Newline>>, 3))
BodyOf(s) == Slice(s, IndexOf(s, <<Newline>>, 3) + 1, Len(s) - 3)

\* msg holds a complete fence opening at offset i: three backticks, word
\* characters, a newline, and three backticks somewhere after the newline
FenceOpensAt(msg, i) ==
    \E t \in 0..Len(msg) :
        /\ i + 4 + t <= Len(msg)
        /\ Slice(msg, i, i + 3) = FenceMark
        /\ AllWord(Slice(msg, i + 3, i + 3 + t))
        /\ msg[i + 4 + t] = Newline
        /\ \E c \in (i + 4 + t)..(Len(msg) - 3) : Slice(msg, c, c + 3) = FenceMark

CodeParts == {k \in 1..Len(parts) : parts[k].type = "code"}
TextParts == {k \in 1..Len(parts) : parts[k].type = "text"}

\* C6: the slices the parts were taken from tile the input: in output order they
\* are non-empty, contiguous, start at 0 and end at the length of the input; a text
\* part is its slice; a code part's slice is a fenced block whose body, trimmed, is
\* the part's content; the slices concatenated are the input.
C6_PartsTileInput ==
    pc = "done" =>
        /\ Len(spans) = Len(parts)
        /\ IF parts = <<>> THEN message = <<>>
           ELSE spans[1][1] = 0 /\ spans[Len(spans)][2] = Len(message)
        /\ \A k \in 1..Len(parts) : spans[k][1] < spans[k][2]
        /\ \A k \in 1..(Len(parts) - 1) : spans[k][2] = spans[k + 1][1]
        /\ \A k \in TextParts : parts[k].content = PartSlice(k)
        /\ \A k \in CodeParts :
               /\ IsFencedBlock(PartSlice(k), TagOf(PartSlice(k)), BodyOf(PartSlice(k)))
               /\ IsTrimOf(parts[k].content, BodyOf(PartSlice(k)))
        /\ Flatten([k \in 1..Len(parts) |-> PartSlice(k)]) = message

\* text, a block whose body has whitespace to trim around its content, text
C6_Witness ==
    /\ pc = "done"
    /\ Len(parts) = 3
    /\ parts[1].type = "text"
    /\ parts[2].type = "code"
    /\ parts[2].content # <<>>
    /\ parts[2].content # BodyOf(PartSlice(2))
    /\ parts[3].type = "text"

\* C7: no two consecutive parts are both text.
C7_NoAdjacentText ==
    \A k \in 1..(Len(parts) - 1) : ~(parts[k].type = "text" /\ parts[k + 1].type = "text")

\* text on both sides of a block
C7_Witness ==
    /\ pc = "done"
    /\ \E k \in CodeParts : k - 1 \in TextParts /\ k + 1 \in TextParts

\* the parts of C8 that do not concern the language
C8_NoEmptyText ==
    /\ \A k \in TextParts : parts[k].content # <<>>
    /\ (message = <<>> => parts = <<>>)
    /\ (FenceOpensAt(message, 0) => (parts # <<>> /\ parts[1].type = "code"))
    /\ ((\E k \in CodeParts : spans[k][2] = Len(message)) => parts[Len(parts)].type = "code")
    /\ Cardinality(CodeParts) = Cardinality(FenceSpans(message))

\* the fenced block part k was taken from has a body of whitespace only
WhitespaceBody(k) ==
    /\ BodyOf(PartSlice(k)) # <<>>
    /\ AllWhitespace(BodyOf(PartSlice(k)))

\* C8 as stated: no empty text part, the empty string parses to no part, a fence at
\* the start or the end has no text part on that side, and a fence whose body is
\* whitespace only yields one code part with empty content and language plaintext.
C8_AsStated ==
    pc = "done" =>
        /\ C8_NoEmptyText
        /\ \A k \in CodeParts :
               WhitespaceBody(k) => (parts[k].content = <<>> /\ parts[k].language = Plaintext)

\* C8 amended: ... with empty content, and language plaintext when the opener has
\* no tag (the tag otherwise).
C8_EmptyTextNeverEmitted ==
    pc = "done" =>
        /\ C8_NoEmptyText
        /\ \A k \in CodeParts :
               WhitespaceBody(k) =>
                   /\ parts[k].content = <<>>
                   /\ (TagOf(PartSlice(k)) = <<>> => parts[k].language = Plaintext)
                   /\ (TagOf(PartSlice(k)) # <<>> => parts[k].language = TagOf(PartSlice(k)))

\* the input is one fence with a tag and a whitespace body, no text on either side
C8_Witness ==
    /\ pc = "done"
    /\ Len(parts) = 1
    /\ parts[1].type = "code"
    /\ WhitespaceBody(1)
    /\ TagOf(PartSlice(1)) # <<>>
    /\ spans[1] = <<0, Len(message)>>

\* C9: a non-empty input that holds three backticks but no complete fence parses
\* to one text part, the whole input.
C9_UnterminatedFenceIsText ==
    (/\ pc = "done"
     /\ IndexOf(message, FenceMark, 0) # -1
     /\ ~\E i \in 0..Len(message) : FenceOpensAt(message, i))
        => parts = <<TextPart(message)>>

\* an opener with its newline and a body, never closed
C9_Witness ==
    /\ pc = "done"
    /\ \E i \in 0..Len(message) :
           /\ Slice(message, i, i + 3) = FenceMark
           /\ IndexOf(message, <<Newline>>, i + 3) # -1
           /\ IndexOf(message, FenceMark, i + 3) = -1
    /\ Len(parts) = 1

\* C10: a code part carries a language, the tag after the opening backticks or
\* plaintext when there is none; a text part carries none.
C10_CodeCarriesLanguage ==
    /\ \A k \in CodeParts :
           /\ "language" \in DOMAIN parts[k]
           /\ parts[k].language =
                  (IF TagOf(PartSlice(k)) = <<>> THEN Plaintext ELSE TagOf(PartSlice(k)))
    /\ \A k \in TextParts : DOMAIN parts[k] = {"type", "content"}

\* a block without a tag, after a text part
C10_Witness ==
    /\ pc = "done"
    /\ \E k \in CodeParts : parts[k].language = Plaintext /\ k - 1 \in TextParts

NoBacktick(s) == \A i \in 1..Len(s) : s[i] # Backtick

\* f is one complete fence: a fenced block whose closing mark is the first three
\* backticks after the opener's newline
IsSingleBlock(f) ==
    /\ IsFencedBlock(f, TagOf(f), BodyOf(f))
    /\ IndexOf(f, FenceMark, IndexOf(f, <<Newline>>, 3) + 1) = Len(f) - 3

\* C11: an input T1 + complete fence + T2, with T1 and T2 non-empty and without
\* backticks, parses to exactly Text(T1), the code part with the trimmed body and
\* the language, Text(T2); and in every parse the parts are in the order of their
\* position in the input.
C11_TextCodeText ==
    pc = "done" =>
        /\ \A i \in 1..(Len(message) - 1) : \A j \in (i + 1)..(Len(message) - 1) :
               LET T1 == Slice(message, 0, i)
                   F  == Slice(message, i, j)
                   T2 == SliceFrom(message, j)
               IN  (NoBacktick(T1) /\ NoBacktick(T2) /\ IsSingleBlock(F)) =>
                       /\ Len(parts) = 3
                       /\ parts[1] = [type |-> "text", content |-> T1]
                       /\ parts[2].type = "code"
                       /\ IsTrimOf(parts[2].content, BodyOf(F))
                       /\ parts[2].language = (IF TagOf(F) = <<>> THEN Plaintext ELSE TagOf(F))
                       /\ parts[3] = [type |-> "text", content |-> T2]
        /\ \A k \in 1..(Len(parts) - 1) : spans[k][1] < spans[k + 1][1]

\* whitespace text, a block with a body to trim, whitespace text
C11_Witness ==
    /\ pc = "done"
    /\ Len(parts) = 3
    /\ IsSingleBlock(PartSlice(2))
    /\ NoBacktick(PartSlice(1)) /\ NoBacktick(PartSlice(3))
    /\ AllWhitespace(PartSlice(1))
    /\ parts[2].content # <<>>

\* C12: the closing mark of every matched block is the first three backticks
\* after the opener's newline; the scan resumes right after it; and the next
\* block opens at the first complete opener from there on, so no text part holds
\* a complete fence.
C12_FirstCloserEndsBlock ==
    /\ \A k \in CodeParts :
           /\ IsSingleBlock(PartSlice(k))
           /\ (k < Len(parts) => spans[k + 1][1] = spans[k][2])
    /\ (CodeParts # {} /\ pc = "loop" =>
           (lastIndex = spans[Max(CodeParts)][2] /\ regexLastIndex = lastIndex))
    /\ (pc = "done" =>
           \A k \in TextParts : \A i \in spans[k][1]..(spans[k][2] - 1) :
               ~FenceOpensAt(message, i))

\* two blocks were matched: the closing mark of the first is followed by more marks
C12_Witness ==
    /\ pc = "done"
    /\ Cardinality(CodeParts) = 2

\* the input is an opener followed by one character c, a newline, a body without
\* backticks and the closing mark
IsSpacedFence(msg, c) ==
    /\ Len(msg) >= 8
    /\ Slice(msg, 0, 3) = FenceMark
    /\ msg[4] = c
    /\ msg[5] = Newline
    /\ NoBacktick(Slice(msg, 5, Len(msg) - 3))
    /\ SliceFrom(msg, Len(msg) - 3) = FenceMark

\* C13 as stated: an opener followed by a non-word character, then a newline, a
\* body and the closing mark is emitted as a code part with language plaintext
\* whose body starts after the newline.
C13_AsStated ==
    (pc = "done" /\ IsSpacedFence(message, Space)) =>
        /\ Len(parts) = 1
        /\ parts[1].type = "code"
        /\ parts[1].language = Plaintext
        /\ IsTrimOf(parts[1].content, Slice(message, 5, Len(message) - 3))

\* C13 (amended): the pattern does not match at an opener whose three backticks
\* are followed by a character that is neither a word character nor a newline:
\* no code part starts there, and an input made of such an opener (followed by a
\* space), a newline, a body without backticks and the closing mark is one text
\* part holding the whole input.
C13_SpacedOpenerIsText ==
    /\ \A k \in CodeParts :
           LET after == spans[k][1] + 3
           IN  after < Len(message) /\ (IsWordChar(message[after + 1]) \/ message[after + 1] = Newline)
    /\ (pc = "done" /\ IsSpacedFence(message, Space)) =>
           parts = <<[type |-> "text", content |-> message]>>

\* the spaced fence with a body was parsed
C13_Witness ==
    /\ pc = "done"
    /\ IsSpacedFence(message, Space)
    /\ Len(message) > 8
    /\ parts = <<[type |-> "text", content |-> message]>>

CodesOf(ps) == SelectSeq(ps, LAMBDA p : p.type = "code")

\* C15: what is rendered is parseMessage of the visible prefix, and its n-th code
\* part is the n-th code part of parseMessage(content), language and content: no
\* truncated block is rendered as code.
C15_RenderedCodeIsWhole ==
    LET shown == CodesOf(RenderContent)
        full  == CodesOf(ParseMessage(content))
    IN  /\ displayedContent = Slice(content, 0, Len(displayedContent))
        /\ Len(shown) <= Len(full)
        /\ \A n \in 1..Len(shown) : shown[n] = full[n]

\* a block with a body is rendered while the text is still being revealed
C15_Witness ==
    /\ ~isPaused
    /\ Len(displayedContent) < Len(content)
    /\ \E n \in 1..Len(RenderContent) :
           RenderContent[n].type = "code" /\ RenderContent[n].content # <<>>

\* C16: stepping over ScenarioText, every visible prefix ends before the opener
\* of the fence or at or after the end of its closing mark.
C16_ScenarioNeverInsideFence ==
    content = ScenarioText =>
        /\ FenceSpans(content) = {<<3, 25>>}
        /\ \A sp \in FenceSpans(content) :
               Len(displayedContent) <= sp[1] \/ Len(displayedContent) >= sp[2]
        /\ displayedContent = Slice(content, 0, currentIndex)

\* the step at the opener has taken the whole fence
C16_Witness ==
    /\ content = ScenarioText
    /\ ~isPaused
    /\ currentIndex = 25
    /\ clicks = 0

\* C18: every iteration of the scan loop moves the scan position strictly
\* forward, and on every input the call ends and returns a sequence of well-formed
\* parts.
C18_ParseTerminates ==
    /\ [][ParseMatch => (regexLastIndex' > regexLastIndex /\ lastIndex' > lastIndex)]_vars
    /\ [](pc = "done" =>
             \A k \in 1..Len(parts) :
                 \/ parts[k].type = "text" /\ DOMAIN parts[k] = {"type", "content"}
                 \/ parts[k].type = "code" /\ DOMAIN parts[k] = {"type", "content", "language"})
    /\ <>[](pc = "done")

\* the loop body ran, with text before and after the block, and the call returned
C18_Witness ==
    /\ pc = "done"
    /\ Len(parts) >= 2
    /\ CodeParts # {}
    /\ lastIndex > 0

\* C19: a timed step whose remainder at the cursor does not start with a fence
\* mark followed by a further mark advances the cursor by exactly
\* min(3, Len(content) - cursor) and appends exactly those characters of content.
C19_PlainStepAdvance ==
    [][\A t \in timers :
          (TimerFire(t)
           /\ ~(/\ Slice(content, currentIndex, currentIndex + 3) = FenceMark
                /\ \E c \in (currentIndex + 3)..(Len(content) - 3) :
                       Slice(content, c, c + 3) = FenceMark))
          => LET remaining == Len(content) - currentIndex
                 step == IF remaining < 3 THEN remaining ELSE 3
             IN  /\ currentIndex' = currentIndex + step
                 /\ displayedContent' =
                        displayedContent \o SubSeq(content, currentIndex + 1, currentIndex + step)
      ]_vars

\* a second plain step of three characters was taken
C19_Witness ==
    /\ ~isPaused
    /\ currentIndex = 6
    /\ NoBacktick(Slice(content, 0, 6))
    /\ displayedContent = Slice(content, 0, 6)
    /\ Len(content) > 6

\* C20: a timed step whose remainder starts with a fence mark moves the cursor to
\* just past the next fence mark of the remainder, in one step, when there is
\* one, and appends the text up to there; when there is none it advances by the
\* small increment min(3, remaining).
C20_FenceStep ==
    [][\A t \in timers :
          (TimerFire(t) /\ Slice(content, currentIndex, currentIndex + 3) = FenceMark)
          => LET closers == {c \in (currentIndex + 3)..(Len(content) - 3) :
                                Slice(content, c, c + 3) = FenceMark}
                 remaining == Len(content) - currentIndex
             IN  IF closers # {}
                 THEN /\ \E c \in closers :
                             /\ \A d \in closers : c <= d
                             /\ currentIndex' = c + 3
                      /\ displayedContent' =
                             displayedContent \o SubSeq(content, currentIndex + 1, currentIndex')
                 ELSE /\ currentIndex' = currentIndex + (IF remaining < 3 THEN remaining ELSE 3)
                      /\ displayedContent' =
                             displayedContent \o SubSeq(content, currentIndex + 1, currentIndex')
      ]_vars

\* a block with a body was taken in one step
C20_Witness ==
    /\ ~isPaused
    /\ clicks = 0
    /\ Slice(content, 0, 3) = FenceMark
    /\ currentIndex > 6
    /\ currentIndex < Len(content)
    /\ Slice(content, currentIndex - 3, currentIndex) = FenceMark
    /\ \A c \in 3..(currentIndex - 4) : Slice(content, c, c + 3) # FenceMark

\* C17: the promise of generateAIResponse is never rejected; it is fulfilled with
\* the apology when the request, the decoding or the access into the response
\* fails, and with the text found in the response otherwise: its value is always
\* a string.
C17_ApologyOrText ==
    /\ settled.state # "rejected"
    /\ aiPc = "done" =>
           /\ settled.state = "fulfilled"
           /\ settled.value.t = "string"
           /\ \/ settled.value = Apology
              \/ settled.value = Access(response, PathOf(model))

\* C21: in every state isComplete is true exactly when the cursor is at the end
\* of the full text.
C21_DoneIffAtEnd == isComplete <=> (currentIndex = Len(content))

\* C22: in every state displayedContent is the first currentIndex characters of
\* content, whatever the order of small steps, block jumps and the click.
C22_PrefixIsSliceToCursor == displayedContent = Slice(content, 0, currentIndex)

\* a block was taken in one step, a later step was taken, and the click then
\* revealed the rest
C22_Witness ==
    /\ isPaused
    /\ clicks = 1
    /\ Slice(content, 0, 3) = FenceMark
    /\ IndexOf(content, FenceMark, 3) # -1
    /\ nextTimerId >= 3
    /\ currentIndex = Len(content)
    /\ displayedContent = content

\* C24: every timed step moves the cursor forward by at least one character, and
\* when every scheduled step (and every effect) is eventually run, a revealer that
\* is never clicked ends with the cursor at the end of the text and isComplete
\* true.
C24_RevealCompletesUnclicked ==
    /\ [][\A t \in timers : TimerFire(t) => currentIndex' > currentIndex]_vars
    /\ \/ <>(clicks > 0)
       \/ <>[](currentIndex = Len(content) /\ isComplete /\ ~isPaused)

\* a text of more than one step was revealed to its end by timed steps alone
C24_Witness ==
    /\ clicks = 0
    /\ ~isPaused
    /\ isComplete
    /\ currentIndex = Len(content)
    /\ Len(content) > 3
    /\ nextTimerId >= 3

\* C25: once the click has taken effect, in every later state the cursor is at
\* the end and displayedContent is the full text: the step scheduled before the
\* click is cancelled and never appends to the prefix or sets the cursor back.
C25_StaleStepNeverActs ==
    /\ isPaused => (currentIndex = Len(content) /\ displayedContent = content)
    /\ (isPaused /\ ~effectDue) => timers = {}

\* the click came while a step was pending; the revealer has completed since
C25_Witness ==
    /\ isPaused
    /\ isComplete
    /\ onCompleteCalls = 1
    /\ effectTimer = 0
    /\ nextTimerId >= 2
    /\ displayedContent = content
    /\ Len(content) > 3

\* C26: whatever calls came before, the parts a call of parseMessage returns are
\* the parts of its argument parsed in isolation; a call starts with no parts,
\* scan position 0 and a fresh regular expression.
C26_NoMemoryBetweenCalls ==
    /\ pc = "done" => parts = ParseMessage(message)
    /\ [][pc = "done" /\ pc' = "loop" =>
             (parts' = <<>> /\ lastIndex' = 0 /\ regexLastIndex' = 0)]_vars

\* the third call in a row returned, after a call that left parts and a scan
\* position behind
C26_Witness ==
    /\ pc = "done"
    /\ calls = 3
    /\ CodeParts # {}
    /\ Len(parts) >= 2

\* C27: the text a block jump reveals is one fenced block for parseMessage: when
\* the pending step is a block jump, the block it will add parses to exactly one
\* code part.
C27_JumpIsParserBlock ==
    \A t \in timers :
        IsFenceJump(t.idx) =>
            LET ps == ParseMessage(CodeBlock(t.idx))
            IN  Len(ps) = 1 /\ ps[1].type = "code"

\* the fields of an instance the claim names: cursor, visible prefix, paused, done
RevealFields(r) == <<r.currentIndex, r.displayedContent, r.isPaused, r.isComplete>>

\* C23: a step of one message's revealer (effect run, timed step, click) leaves
\* the state of every other message's revealer unchanged.
C23_InstancesIndependent ==
    [][\A i \in MessageIds :
          instances'[i] # instances[i] =>
              \A j \in MessageIds \ {i} :
                  /\ instances'[j] = instances[j]
                  /\ RevealFields(instances'[j]) = RevealFields(instances[j])
      ]_vars

\* the second message was force-completed and is done while the first, started
\* at the same time, is still being revealed by timed steps
C23_Witness ==
    /\ instances[2].isPaused
    /\ instances[2].isComplete
    /\ ~instances[1].isPaused
    /\ ~instances[1].isComplete
    /\ instances[1].currentIndex > 0
    /\ instances[1].currentIndex < Len(instances[1].content)

----------------------------------------------------------------------------
\* Properties of Dashboard (checked under SpecConv, FairSpecConv or SpecForm).

\* no loadMessages and no sendMessage is awaiting
Quiescent == loads = {} /\ sends = {}

\* C28: every message of the displayed list belongs to currentConversation.
\* Stated for the states in which nothing is in flight, where no pending load
\* can still replace the list; the claim asks it of every reachable state.
C28_MessagesOfCurrentConversation ==
    Quiescent =>
        \A k \in 1..Len(messages) : messages[k].conversation_id = currentConversation

\* C29: a call of sendMessage that has inserted its user message had a
\* non-empty trimmed input or at least one image-analysis result attached.
C29_InsertNeedsTextOrResult ==
    \A s \in sends :
        s.stage # "insertUser" =>
            \/ Trim(s.input) # <<>>
            \/ (s.results.set /\ Len(s.results.items) >= 1)

\* a submit of this step found loading true
SubmitWhileLoading == submits' # submits /\ loading

\* the call of sendMessage that passed the guard at the n-th submit is awaiting
InFlight(n) == \E s \in sends : s.id = n

\* C30: at most one sendMessage is in flight; a submit while loading inserts
\* nothing and starts no call; every call that passed the guard ends with
\* loading and isThinking false, whichever of its requests returned an error.
C30_OneSendAndLoadingResets ==
    /\ [](Cardinality(sends) <= 1)
    /\ [][SubmitWhileLoading => (sends' = sends /\ db' = db /\ messages' = messages)]_vars
    /\ \A n \in 1..MaxSubmits :
          InFlight(n) ~> (~InFlight(n) /\ ~loading /\ ~isThinking)

\* the first call is awaiting the AI response, and a second submit has been
\* made, and ignored, meanwhile
C30_Witness ==
    /\ submits = 2
    /\ \E s \in sends : s.id = 1 /\ s.stage = "ai"
    /\ loading
    /\ isThinking

====
